---- MODULE Spec2Model ----
(***************************************************************************)
(* The weather tool server of src/weather/main.py: two tool handlers,      *)
(* getAlerts and getForecast, on top of the HTTP adapter makeNwsRequest.   *)
(*                                                                         *)
(* A JSON value / Python object is a record [t |-> tag, v |-> payload]:    *)
(*   "null" (Python None), "bool", "num", "str",                           *)
(*   "list"  v = sequence of values,                                       *)
(*   "dict"  v = sequence of [k |-> key, v |-> value], in insertion order. *)
(* A raised exception is [t |-> "raise", v |-> class name].                *)
(* A text built by a handler is a sequence of string fragments: the        *)
(* literal pieces of the f-strings and the formatted field values, so that *)
(* blocks and separators can be told apart by position.                    *)
(***************************************************************************)
EXTENDS Integers, Sequences, FiniteSets, Bags, TLC

\* ------------------------------------------------------------------ bounds
MaxInvocations == 2     \* tool invocations the host keeps in flight
MaxFeatures == 2        \* longest list of alert features upstream answers with
MaxPeriods == 7         \* longest list of forecast periods upstream answers with

\* --------------------------------------------------------------- constants
NWS_API_BASE == "https://api.weather.gov"
PeriodLimit == 5
SEP == "\n---\n"

\* ----------------------------------------------------------- JSON / Python
JNull == [t |-> "null", v |-> 0]
JBool(b) == [t |-> "bool", v |-> b]
JNum(n) == [t |-> "num", v |-> n]
JStr(s) == [t |-> "str", v |-> s]
JList(q) == [t |-> "list", v |-> q]
JDict(q) == [t |-> "dict", v |-> q]
KV(key, val) == [k |-> key, v |-> val]
Raise(cls) == [t |-> "raise", v |-> cls]
IsRaise(x) == x.t = "raise"

\* bool(x): None, False, 0, "", [] and {} are false.
Truthy(x) ==
  CASE x.t = "null" -> FALSE
    [] x.t = "bool" -> x.v
    [] x.t = "num" -> x.v # 0
    [] x.t = "str" -> x.v # ""
    [] x.t = "list" -> Len(x.v) > 0
    [] x.t = "dict" -> Len(x.v) > 0

HasKey(d, key) == \E i \in 1..Len(d.v) : d.v[i].k = key
Lookup(d, key) == d.v[CHOOSE i \in 1..Len(d.v) : d.v[i].k = key].v

\* The strings of the model that properly contain another string of it.
ProperSubstrings == {<<"no features here", "features">>}
StrContains(hay, needle) ==
  hay = needle \/ needle = "" \/ <<hay, needle>> \in ProperSubstrings

\* key in x, for a str key: a BOOLEAN, or the exception raised.
In(key, x) ==
  CASE x.t = "dict" -> JBool(HasKey(x, key))
    [] x.t = "list" -> JBool(\E i \in 1..Len(x.v) : x.v[i] = JStr(key))
    [] x.t = "str" -> JBool(StrContains(x.v, key))
    [] OTHER -> Raise("TypeError")

\* x[key], for a str key.
Subscript(x, key) ==
  IF IsRaise(x) THEN x
  ELSE CASE x.t = "dict" -> IF HasKey(x, key) THEN Lookup(x, key) ELSE Raise("KeyError")
         [] OTHER -> Raise("TypeError")

\* x.get(key, default): only a dict has the method.
Get(x, key, default) ==
  IF IsRaise(x) THEN x
  ELSE CASE x.t = "dict" -> IF HasKey(x, key) THEN Lookup(x, key) ELSE JStr(default)
         [] OTHER -> Raise("AttributeError")

\* The sequence "for e in x" runs over; a str yields its characters, whose
\* identity is not tracked (each one is a one-character str).
Iterate(x) ==
  IF IsRaise(x) THEN x
  ELSE CASE x.t = "list" -> JList(x.v)
         [] x.t = "dict" -> JList([i \in 1..Len(x.v) |-> JStr(x.v[i].k)])
         [] x.t = "str" -> JList([i \in 1..Len(x.v) |-> JStr("c")])
         [] OTHER -> Raise("TypeError")

Min(a, b) == IF a < b THEN a ELSE b

\* Slice taking the last n elements, x[-n:], instead of the first n.
SliceLast(x, n) ==
  IF IsRaise(x) THEN x
  ELSE CASE x.t = "list" -> JList(SubSeq(x.v, Len(x.v) - Min(n, Len(x.v)) + 1, Len(x.v)))
         [] x.t = "str" -> JList([i \in 1..Min(n, Len(x.v)) |-> JStr("c")])
         [] OTHER -> Raise("TypeError")

\* x[:n]. Slicing a dict raises (TypeError or KeyError by interpreter version).
Slice(x, n) ==
  IF IsRaise(x) THEN x
  ELSE CASE x.t = "list" -> JList(SubSeq(x.v, 1, Min(n, Len(x.v))))
         [] x.t = "str" -> JList([i \in 1..Min(n, Len(x.v)) |-> JStr("c")])
         [] OTHER -> Raise("TypeError")

Digit == <<"0", "1", "2", "3", "4", "5", "6", "7", "8", "9">>
RECURSIVE NatStr(_)
NatStr(n) == IF n < 10 THEN Digit[n + 1] ELSE NatStr(n \div 10) \o Digit[(n % 10) + 1]
IntStr(n) == IF n < 0 THEN "-" \o NatStr(-n) ELSE NatStr(n)

\* str() of a float given in tenths: 397 is 39.7, -1048 is -104.8.
FloatStr(tenths) ==
  LET a == IF tenths < 0 THEN -tenths ELSE tenths
  IN (IF tenths < 0 THEN "-" ELSE "") \o NatStr(a \div 10) \o "." \o NatStr(a % 10)

RECURSIVE PyRepr(_), ReprItems(_, _)
\* str(x) as an f-string field renders it.
PyStr(x) ==
  CASE x.t = "str" -> x.v
    [] OTHER -> PyRepr(x)
PyRepr(x) ==
  CASE x.t = "null" -> "None"
    [] x.t = "bool" -> IF x.v THEN "True" ELSE "False"
    [] x.t = "num" -> IntStr(x.v)
    [] x.t = "str" -> "'" \o x.v \o "'"
    [] x.t = "list" -> "[" \o ReprItems(x, 1) \o "]"
    [] x.t = "dict" -> "{" \o ReprItems(x, 1) \o "}"
ReprItems(x, i) ==
  IF i > Len(x.v) THEN ""
  ELSE (IF i > 1 THEN ", " ELSE "")
       \o (IF x.t = "dict" THEN "'" \o x.v[i].k \o "': " \o PyRepr(x.v[i].v)
           ELSE PyRepr(x.v[i]))
       \o ReprItems(x, i + 1)

\* sep.join(items) over texts.
RECURSIVE Join(_, _)
Join(sep, items) ==
  IF Len(items) = 0 THEN << >>
  ELSE IF Len(items) = 1 THEN items[1]
  ELSE items[1] \o <<sep>> \o Join(sep, Tail(items))

\* ------------------------------------------------------------ HTTP adapter
\* What the transport does with one GET: err is the exception client.get
\* raises ("none" when a response arrives), status the response's status,
\* parses whether its body is valid JSON, json the parsed body.
Response(status, parses, json) ==
  [t |-> "response", err |-> "none", status |-> status, parses |-> parses, json |-> json]
TransportError(cls) ==
  [t |-> "response", err |-> cls, status |-> 0, parses |-> FALSE, json |-> JNull]
NoResponse == TransportError("unsent")

\* Strings httpx refuses as a URL before anything is sent.
NonHttpStrings == {""}

\* client.get(url, headers=headers, timeout=30.0)
ClientGet(url, resp) ==
  IF url.t # "str" THEN Raise("TypeError")
  ELSE IF url.v \in NonHttpStrings THEN Raise("UnsupportedProtocol")
  ELSE IF resp.err # "none" THEN Raise(resp.err)
  ELSE resp

\* response.raise_for_status()
RaiseForStatus(response) ==
  IF IsRaise(response) THEN response
  ELSE IF response.status \in 200..299 THEN response
  ELSE Raise("HTTPStatusError")

\* response.json()
ResponseJson(response) ==
  IF IsRaise(response) THEN response
  ELSE IF response.parses THEN response.json
  ELSE Raise("JSONDecodeError")

\* The classes "except Exception" catches.
ExceptionClasses ==
  {"TypeError", "KeyError", "AttributeError", "UnsupportedProtocol", "ReadTimeout",
   "ConnectError", "HTTPStatusError", "JSONDecodeError"}

\* makeNwsRequest catching httpx.HTTPError only, so a body that is not JSON
\* raises through it.
makeNwsRequestHttpErrors(url, resp) ==
  LET r == ResponseJson(RaiseForStatus(ClientGet(url, resp)))
  IN IF IsRaise(r) /\ r.v \in ExceptionClasses \ {"JSONDecodeError", "TypeError"}
     THEN JNull ELSE r

makeNwsRequest(url, resp) ==
  LET r == ResponseJson(RaiseForStatus(ClientGet(url, resp)))
  IN IF IsRaise(r) /\ r.v \in ExceptionClasses THEN JNull ELSE r

\* -------------------------------------------------------------- formatters
Text(frags) == [t |-> "text", v |-> frags]
Return(frags) == [t |-> "return", v |-> frags]
Request(url) == [t |-> "request", v |-> url]

\* The first exception among the results, in evaluation order, if any.
FirstRaise(results) ==
  IF \E i \in 1..Len(results) : IsRaise(results[i])
  THEN results[CHOOSE i \in 1..Len(results) :
                 /\ IsRaise(results[i])
                 /\ \A j \in 1..(i - 1) : ~IsRaise(results[j])]
  ELSE Text(<< >>)

formatAlert(feature) ==
  LET props == Subscript(feature, "properties")
      f == << Get(props, "event", "Unknown"),
              Get(props, "areaDesc", "Unknown"),
              Get(props, "severity", "Unknown"),
              Get(props, "description", "No description available"),
              Get(props, "instruction", "No specific instructions provided") >>
  IN IF IsRaise(FirstRaise(f)) THEN FirstRaise(f)
     ELSE Text(<< "\n    Event: ", PyStr(f[1]),
                  "\n    Area: ", PyStr(f[2]),
                  "\n    Severity: ", PyStr(f[3]),
                  "\n    Description: ", PyStr(f[4]),
                  "\n    Instructions: ", PyStr(f[5]),
                  "\n    " >>)

\* The f-string of the loop body of getForecast.
forecast(period) ==
  LET f == << Subscript(period, "name"),
              Subscript(period, "temperature"),
              Subscript(period, "temperatureUnit"),
              Subscript(period, "windSpeed"),
              Subscript(period, "windDirection"),
              Subscript(period, "detailedForecast") >>
  IN IF IsRaise(FirstRaise(f)) THEN FirstRaise(f)
     ELSE Text(<< "\n            ", PyStr(f[1]),
                  ":\n            Temperature: ", PyStr(f[2]), "°", PyStr(f[3]),
                  "\n            Wind: ", PyStr(f[4]), " ", PyStr(f[5]),
                  "\n            Forecast: ", PyStr(f[6]),
                  "\n            " >>)

\* ---------------------------------------------------------------- handlers
UnableAlerts == << "Unable to fetch alerts or no alerts found." >>
NoActiveAlerts == << "No active alerts for this state." >>
UnableForecast == << "Unable to fetch forecast data for this location." >>
UnableDetailed == << "Unable to fetch detailed forecast." >>

alertsUrl(state) == JStr(NWS_API_BASE \o "/alerts/active/area/" \o state)
pointsUrl(latitude, longitude) ==
  JStr(NWS_API_BASE \o "/points/" \o FloatStr(latitude) \o "," \o FloatStr(longitude))

\* The blocks joined, or the first exception raised while building them.
JoinBlocks(blocks) ==
  IF IsRaise(FirstRaise(blocks)) THEN FirstRaise(blocks)
  ELSE Return(Join(SEP, [i \in 1..Len(blocks) |-> blocks[i].v]))

\* getAlertsData without the test for an empty "features".
getAlertsDataNoEmptyCheck(data) ==
  IF IsRaise(data) THEN data
  ELSE IF ~Truthy(data) THEN Return(UnableAlerts)
  ELSE IF IsRaise(In("features", data)) THEN In("features", data)
  ELSE IF ~In("features", data).v THEN Return(UnableAlerts)
  ELSE LET features == Subscript(data, "features")
       IN IF IsRaise(Iterate(features)) THEN Iterate(features)
          ELSE LET it == Iterate(features).v
               IN JoinBlocks([i \in 1..Len(it) |-> formatAlert(it[i])])

\* getAlerts from the return of makeNwsRequest on.
getAlertsData(data) ==
  IF IsRaise(data) THEN data
  ELSE IF ~Truthy(data) THEN Return(UnableAlerts)
  ELSE IF IsRaise(In("features", data)) THEN In("features", data)
  ELSE IF ~In("features", data).v THEN Return(UnableAlerts)
  ELSE LET features == Subscript(data, "features")
       IN IF IsRaise(features) THEN features
          ELSE IF ~Truthy(features) THEN Return(NoActiveAlerts)
          ELSE IF IsRaise(Iterate(features)) THEN Iterate(features)
          ELSE LET it == Iterate(features).v
               IN JoinBlocks([i \in 1..Len(it) |-> formatAlert(it[i])])

\* getForecastPointsData without the test of points_data.
getForecastPointsDataUnguarded(points_data) ==
  IF IsRaise(points_data) THEN points_data
  ELSE LET forecast_url == Subscript(Subscript(points_data, "properties"), "forecast")
       IN IF IsRaise(forecast_url) THEN forecast_url ELSE Request(forecast_url)

\* getForecastPointsData asking the points endpoint of the API root again
\* when the lookup gave nothing.
getForecastPointsDataRetry(points_data) ==
  IF IsRaise(points_data) THEN points_data
  ELSE IF ~Truthy(points_data) THEN Request(JStr(NWS_API_BASE \o "/points/0.0,0.0"))
  ELSE LET forecast_url == Subscript(Subscript(points_data, "properties"), "forecast")
       IN IF IsRaise(forecast_url) THEN forecast_url ELSE Request(forecast_url)

\* getForecast from the return of the first makeNwsRequest to the second call.
getForecastPointsData(points_data) ==
  IF IsRaise(points_data) THEN points_data
  ELSE IF ~Truthy(points_data) THEN Return(UnableForecast)
  ELSE LET forecast_url == Subscript(Subscript(points_data, "properties"), "forecast")
       IN IF IsRaise(forecast_url) THEN forecast_url ELSE Request(forecast_url)

\* getForecastForecastData answering a failed second call with the message
\* of the first.
getForecastForecastDataFirstMessage(forecast_data) ==
  IF IsRaise(forecast_data) THEN forecast_data
  ELSE IF ~Truthy(forecast_data) THEN Return(UnableForecast)
  ELSE LET periods == Subscript(Subscript(forecast_data, "properties"), "periods")
           it == Iterate(Slice(periods, PeriodLimit))
       IN IF IsRaise(it) THEN it
          ELSE JoinBlocks([i \in 1..Len(it.v) |-> forecast(it.v[i])])

\* getForecast from the return of the second makeNwsRequest on.
getForecastForecastData(forecast_data) ==
  IF IsRaise(forecast_data) THEN forecast_data
  ELSE IF ~Truthy(forecast_data) THEN Return(UnableDetailed)
  ELSE LET periods == Subscript(Subscript(forecast_data, "properties"), "periods")
           it == Iterate(Slice(periods, PeriodLimit))
       IN IF IsRaise(it) THEN it
          ELSE JoinBlocks([i \in 1..Len(it.v) |-> forecast(it.v[i])])

\* ------------------------------------------------- what upstream may answer
States == {"CA", "XX"}
Coordinates == {<<397, -1048>>, <<912, 0>>}     \* tenths of a degree
ForecastUrl == "https://api.weather.gov/gridpoints/BOU/62,61/forecast"

Props(q) == JDict(<< KV("properties", q) >>)

FeatureBare == Props(JDict(<< >>))
FeatureFull ==
  Props(JDict(<< KV("event", JStr("Flood Warning")),
                 KV("areaDesc", JStr("Napa")),
                 KV("severity", JStr("Severe")),
                 KV("description", JStr("River rising")),
                 KV("instruction", JNull) >>))
WellFormedFeatures == {FeatureBare, FeatureFull}
FeatureLists ==
  UNION {[1..n -> WellFormedFeatures] : n \in 1..MaxFeatures}

Features(q) == JDict(<< KV("type", JStr("FeatureCollection")), KV("features", q) >>)

AlertsBodies ==
  {JNull, JDict(<< >>), JNum(7), JStr("no features here"),
   JList(<< JStr("features") >>),
   JDict(<< KV("title", JStr("Not Found")) >>),
   Features(JNull), Features(JList(<< >>)), Features(JNum(7)),
   Features(JList(<< JDict(<< >>) >>)),
   Features(JList(<< Props(JNull) >>))}
  \cup {Features(JList(q)) : q \in FeatureLists}

PointsBodies ==
  {JNull, JDict(<< >>), JNum(7), Props(JDict(<< >>)),
   Props(JDict(<< KV("forecast", JStr(ForecastUrl)) >>)),
   Props(JDict(<< KV("forecast", JNum(7)) >>)),
   Props(JDict(<< KV("forecast", JStr("")) >>))}

Period(i) ==
  JDict(<< KV("name", JStr("Period " \o IntStr(i))),
           KV("temperature", JNum(60 + i)),
           KV("temperatureUnit", JStr("F")),
           KV("windSpeed", JStr("5 mph")),
           KV("windDirection", JStr("NW")),
           KV("detailedForecast", JStr("Sunny")) >>)
Periods(n) == JList([i \in 1..n |-> Period(i)])

ForecastBodies ==
  {JNull, JNum(7), Props(JDict(<< >>)),
   Props(JDict(<< KV("periods", JNull) >>)),
   Props(JDict(<< KV("periods", JList(<< JDict(<< >>) >>)) >>))}
  \cup {Props(JDict(<< KV("periods", Periods(n)) >>)) : n \in 0..MaxPeriods}

\* A response that is not a success, or no response at all.
Failures ==
  {TransportError("ReadTimeout"), TransportError("ConnectError"),
   Response(404, TRUE, JDict(<< KV("title", JStr("Not Found")) >>)),
   Response(200, FALSE, JNull)}

\* What may come back for a request to url; a URL httpx refuses is never sent.
AlertsAnswers == Failures \cup {Response(200, TRUE, b) : b \in AlertsBodies}
PointsAnswers == Failures \cup {Response(200, TRUE, b) : b \in PointsBodies}
ForecastAnswers == Failures \cup {Response(200, TRUE, b) : b \in ForecastBodies}
Answers(url, answers) ==
  IF url.t # "str" \/ url.v \in NonHttpStrings THEN {NoResponse} ELSE answers

\* ------------------------------------------------------------ state machine
VARIABLES
  live,       \* the bag of invocations the host has started and not yet seen end
  delivered   \* the invocation that last ended, with what the host received

vars == <<live, delivered>>

\* One call of makeNwsRequest: pending until the transport answers.
Pending(url) == [url |-> url, done |-> FALSE, resp |-> NoResponse, result |-> JNull]
Completed(url, resp, result) == [url |-> url, done |-> TRUE, resp |-> resp, result |-> result]

Last(q) == q[Len(q)]
Front(q) == SubSeq(q, 1, Len(q) - 1)

One(r) == SetToBag({r})

\* Invocation r ends: the host receives outcome.
Deliver(r, requests, outcome) ==
  /\ delivered' = [tool |-> r.tool, state |-> r.state,
                   latitude |-> r.latitude, longitude |-> r.longitude,
                   requests |-> requests, outcome |-> outcome]
  /\ live' = live (-) One(r)

Init ==
  /\ live = EmptyBag
  /\ delivered = [tool |-> "none", state |-> "", latitude |-> 0, longitude |-> 0,
                  requests |-> << >>, outcome |-> Return(<< >>)]

\* The host invokes getAlerts(state): the handler runs up to its await.
getAlerts(state) ==
  /\ BagCardinality(live) < MaxInvocations
  /\ live' = live (+) One([pc |-> "getAlerts:18", tool |-> "getAlerts", state |-> state,
                           latitude |-> 0, longitude |-> 0,
                           requests |-> << Pending(alertsUrl(state)) >>])
  /\ UNCHANGED delivered

\* makeNwsRequest returns into getAlerts, which runs to its end.
getAlertsResume ==
  \E r \in BagToSet(live) :
    /\ r.pc = "getAlerts:18"
    /\ \E resp \in Answers(Last(r.requests).url, AlertsAnswers) :
         LET url == Last(r.requests).url
             data == makeNwsRequest(url, resp)
         IN Deliver(r, << Completed(url, resp, data) >>, getAlertsData(data))

\* The host invokes getForecast(latitude, longitude).
getForecast(latitude, longitude) ==
  /\ BagCardinality(live) < MaxInvocations
  /\ live' = live (+) One([pc |-> "getForecast:35", tool |-> "getForecast", state |-> "",
                           latitude |-> latitude, longitude |-> longitude,
                           requests |-> << Pending(pointsUrl(latitude, longitude)) >>])
  /\ UNCHANGED delivered

\* The first makeNwsRequest returns into getForecast, which runs to its end
\* or to the second call.
getForecastResumePoints ==
  \E r \in BagToSet(live) :
    /\ r.pc = "getForecast:35"
    /\ \E resp \in Answers(Last(r.requests).url, PointsAnswers) :
         LET url == Last(r.requests).url
             points_data == makeNwsRequest(url, resp)
             log == Front(r.requests) \o << Completed(url, resp, points_data) >>
             next == getForecastPointsData(points_data)
         IN IF next.t = "request"
            THEN /\ live' = (live (-) One(r))
                              (+) One([r EXCEPT !.pc = "getForecast:41",
                                                !.requests = log \o << Pending(next.v) >>])
                 /\ UNCHANGED delivered
            ELSE Deliver(r, log, next)

\* The second makeNwsRequest returns into getForecast, which runs to its end.
getForecastResumeForecast ==
  \E r \in BagToSet(live) :
    /\ r.pc = "getForecast:41"
    /\ \E resp \in Answers(Last(r.requests).url, ForecastAnswers) :
         LET url == Last(r.requests).url
             forecast_data == makeNwsRequest(url, resp)
             log == Front(r.requests) \o << Completed(url, resp, forecast_data) >>
         IN Deliver(r, log, getForecastForecastData(forecast_data))

Next ==
  \/ \E state \in States : getAlerts(state)
  \/ getAlertsResume
  \/ \E c \in Coordinates : getForecast(c[1], c[2])
  \/ getForecastResumePoints
  \/ getForecastResumeForecast

Spec == Init /\ [][Next]_vars

\* ------------------------------------------------------------------ claims
RequestLogs == {r.requests : r \in BagToSet(live)} \cup {delivered.requests}
AdapterCalls == UNION {{q[k] : k \in 1..Len(q)} : q \in RequestLogs}

\* The transport did not hand back a 2xx response with a JSON body.
IsFailure(resp) == resp.err # "none" \/ resp.status \notin 200..299 \/ ~resp.parses

\* x is an object whose key leads to a value of type tag.
Carries(x, key, tag) == x.t = "dict" /\ HasKey(x, key) /\ Lookup(x, key).t = tag

RECURSIVE BlockStart(_, _)
\* Where block k starts in the join of blocks with one-fragment separators.
BlockStart(blocks, k) ==
  IF k = 1 THEN 1 ELSE BlockStart(blocks, k - 1) + Len(blocks[k - 1]) + 1

\* text is exactly the blocks, in order, with SEP between consecutive blocks
\* and nothing before, after or besides them.
IsJoined(text, blocks) ==
  LET n == Len(blocks)
  IN IF n = 0 THEN text = << >>
     ELSE /\ Len(text) = BlockStart(blocks, n) + Len(blocks[n]) - 1
          /\ \A k \in 1..n :
               SubSeq(text, BlockStart(blocks, k),
                      BlockStart(blocks, k) + Len(blocks[k]) - 1) = blocks[k]
          /\ \A k \in 1..(n - 1) : text[BlockStart(blocks, k + 1) - 1] = SEP

EndedAlerts == delivered.tool = "getAlerts"
EndedForecast == delivered.tool = "getForecast"
Data == delivered.requests[1].result

\* C1: every completed call of makeNwsRequest returned a value, never an
\* exception, and returned None whenever the transport timed out, failed,
\* answered with a non-2xx status or with a body that is not JSON.
C1_FailureIsNoData ==
  \A c \in AdapterCalls :
    c.done => /\ ~IsRaise(c.result)
              /\ IsFailure(c.resp) => c.result = JNull

C1_Witness ==
  \E c \in AdapterCalls :
    /\ c.done /\ c.resp.err = "none" /\ c.resp.status = 200 /\ ~c.resp.parses
    /\ c.result = JNull

\* text is one or more alert blocks with SEP between them.
IsAlertText(text) ==
  /\ Len(text) % 12 = 11
  /\ \A i \in 1..Len(text) :
       /\ i % 12 = 0 => text[i] = SEP
       /\ i % 12 = 1 => text[i] = "\n    Event: "
       /\ i % 12 = 11 => text[i] = "\n    "

\* C2: a getAlerts invocation always ends by returning one of the two fixed
\* messages or a formatted alert text, whatever the adapter handed it.
C2_GetAlertsNeverRaises ==
  EndedAlerts =>
    /\ delivered.outcome.t = "return"
    /\ \/ delivered.outcome.v \in {UnableAlerts, NoActiveAlerts}
       \/ IsAlertText(delivered.outcome.v)

\* C3: a getForecast invocation always ends by returning a text.
C3_GetForecastNeverRaises ==
  EndedForecast => delivered.outcome.t = "return"

\* C4: when the points lookup returns None, getForecast returns exactly
\* "Unable to fetch forecast data for this location." and has made no second
\* request; no invocation waiting on a second request had None from the first.
C4_NoPointsNoSecondRequest ==
  /\ (EndedForecast /\ Data = JNull) =>
       /\ delivered.outcome = Return(UnableForecast)
       /\ Len(delivered.requests) = 1
  /\ \A r \in BagToSet(live) : Len(r.requests) > 1 => r.requests[1].result # JNull

C4_Witness ==
  /\ EndedForecast /\ Data = JNull
  /\ IsFailure(delivered.requests[1].resp)
  /\ delivered.outcome = Return(UnableForecast)

\* C5: when the points response carries properties.forecast, getForecast
\* makes its second request to that URL, and if that call returns None the
\* invocation returns exactly "Unable to fetch detailed forecast.".
C5_NoDetailedForecast ==
  (EndedForecast /\ Carries(Data, "properties", "dict")
     /\ HasKey(Lookup(Data, "properties"), "forecast")) =>
    /\ Len(delivered.requests) = 2
    /\ delivered.requests[2].url = Lookup(Lookup(Data, "properties"), "forecast")
    /\ delivered.requests[2].result = JNull =>
         delivered.outcome = Return(UnableDetailed)

C5_Witness ==
  /\ EndedForecast /\ Len(delivered.requests) = 2
  /\ delivered.requests[2].url = JStr(ForecastUrl)
  /\ IsFailure(delivered.requests[2].resp)
  /\ delivered.requests[2].result = JNull
  /\ delivered.outcome = Return(UnableDetailed)

PeriodKeys ==
  {"name", "temperature", "temperatureUnit", "windSpeed", "windDirection",
   "detailedForecast"}
WellFormedPeriod(p) == p.t = "dict" /\ \A key \in PeriodKeys : HasKey(p, key)
\* The forecast response carries properties.periods, a list of well-formed periods.
GoodPeriods(x) ==
  /\ Carries(x, "properties", "dict")
  /\ Carries(Lookup(x, "properties"), "periods", "list")
  /\ \A k \in 1..Len(Lookup(Lookup(x, "properties"), "periods").v) :
       WellFormedPeriod(Lookup(Lookup(x, "properties"), "periods").v[k])

\* C6: when the forecast response holds n well-formed periods, getForecast
\* returns exactly the blocks of the first min(n, 5) periods, in their order,
\* joined by "\n---\n".
C6_FirstFivePeriods ==
  (EndedForecast /\ Len(delivered.requests) = 2
     /\ GoodPeriods(delivered.requests[2].result)) =>
    LET periods == Lookup(Lookup(delivered.requests[2].result, "properties"), "periods").v
        m == IF Len(periods) < 5 THEN Len(periods) ELSE 5
    IN /\ delivered.outcome.t = "return"
       /\ IsJoined(delivered.outcome.v, [k \in 1..m |-> forecast(periods[k]).v])

C6_Witness ==
  /\ EndedForecast /\ Len(delivered.requests) = 2
  /\ delivered.requests[2].result = Props(JDict(<< KV("periods", Periods(7)) >>))
  /\ delivered.outcome.t = "return"
  /\ Len(delivered.outcome.v) = 5 * Len(forecast(Period(1)).v) + 4

\* C7: when the adapter returns None or a value without a "features" list,
\* getAlerts returns exactly "Unable to fetch alerts or no alerts found.".
C7_NoFeaturesListIsUnable ==
  (EndedAlerts /\ (Data = JNull \/ ~Carries(Data, "features", "list"))) =>
    delivered.outcome = Return(UnableAlerts)

\* C8: when the adapter returns an object whose "features" is the empty
\* list, getAlerts returns exactly "No active alerts for this state.".
C8_EmptyFeatures ==
  (EndedAlerts /\ Carries(Data, "features", "list")
     /\ Lookup(Data, "features").v = << >>) =>
    delivered.outcome = Return(NoActiveAlerts)

C8_Witness ==
  /\ EndedAlerts /\ Data = Features(JList(<< >>))
  /\ delivered.outcome = Return(NoActiveAlerts)

\* C9: when the adapter returns n >= 1 features, getAlerts returns exactly the
\* n formatted blocks, one per feature in the features' order, with "\n---\n"
\* between consecutive blocks and none leading or trailing.
C9_AlertBlocksJoined ==
  (EndedAlerts /\ Carries(Data, "features", "list")
     /\ Lookup(Data, "features").v # << >>) =>
    LET features == Lookup(Data, "features").v
    IN /\ delivered.outcome.t = "return"
       /\ IsJoined(delivered.outcome.v,
                   [k \in 1..Len(features) |-> formatAlert(features[k]).v])

\* Where every feature carries a properties object, the blocks are returned
\* as C9 says: the claim fails on the other features only.
AlertBlocksJoinedWhenFormattable ==
  (EndedAlerts /\ Carries(Data, "features", "list")
     /\ \A k \in 1..Len(Lookup(Data, "features").v) :
          Carries(Lookup(Data, "features").v[k], "properties", "dict"))
    => C9_AlertBlocksJoined

\* C10: every invocation makes its requests one after the other and never
\* retries: a request is followed by another only once it has completed with
\* data; getAlerts makes exactly one request; getForecast makes its points
\* request and at most one more; a running invocation has exactly one
\* request in flight, its last.
C10_SequentialNoRetry ==
  /\ \A q \in RequestLogs :
       \A k \in 1..(Len(q) - 1) : q[k].done /\ Truthy(q[k].result)
  /\ \A r \in BagToSet(live) :
       /\ ~Last(r.requests).done
       /\ r.tool = "getAlerts" =>
            Len(r.requests) = 1 /\ r.requests[1].url = alertsUrl(r.state)
       /\ r.tool = "getForecast" =>
            /\ Len(r.requests) \in 1..2
            /\ r.requests[1].url = pointsUrl(r.latitude, r.longitude)
  /\ \A k \in 1..Len(delivered.requests) : delivered.requests[k].done
  /\ EndedAlerts => Len(delivered.requests) = 1
  /\ EndedForecast => Len(delivered.requests) \in 1..2

C10_Witness ==
  /\ BagCardinality(live) = MaxInvocations
  /\ \E r \in BagToSet(live) : r.tool = "getForecast" /\ Len(r.requests) = 2
  /\ \E r \in BagToSet(live) : r.tool = "getAlerts"
  /\ EndedForecast /\ Len(delivered.requests) = 1 /\ ~Truthy(Data)
====
